---- MODULE Spec2Model ----
(***************************************************************************)
(* Electricity-theft detection dashboard: the ensemble scoring policy and  *)
(* the Next.js route handlers that proxy to the Python inference service.  *)
(*                                                                         *)
(* Numbers are fixed point.  A model score s in [0,1] is the integer       *)
(* s * One; a weight w is the integer 100 * w (percent); an ensemble score *)
(* e, a product of the two, is the integer e * EnsOne, EnsOne = 100 * One. *)
(***************************************************************************)
EXTENDS Integers, Sequences, FiniteSets

VARIABLES
    threshold,      \* CLASSIFICATION_THRESHOLD of the inference service
    consumer,       \* the consumer record the service scored last
    disk,           \* outputs/consumer_risk_scores.csv as the frontend host sees it
    consumersReq,   \* GET /api/consumers: the request being handled
    predictReq,     \* POST /api/predict: the request being handled
    generateReq,    \* POST /api/generate-data: the request being handled
    evaluationReq,  \* GET /api/evaluation: the request being handled
    modelsPage,     \* the models page: the consumers fetched and the metrics shown
    batch,          \* a batch of scored consumers classified at two thresholds
    uploadPage      \* the upload page: its React state and the requests it issued

vars == <<threshold, consumer, disk, consumersReq, predictReq, generateReq, evaluationReq,
          modelsPage, batch, uploadPage>>

Idle == [pc |-> "idle"]

\* a file that readFileSync cannot read
NoFile == [readable |-> FALSE]

Max(S) == CHOOSE x \in S : \A y \in S : y <= x
Min(S) == CHOOSE x \in S : \A y \in S : x <= y

\* a response that carries a JSON body with the given status
Json(status, body) == [status |-> status, body |-> body]

\* the outcome of a try block: a returned response, or a thrown error
Return(response) == [thrown |-> FALSE, response |-> response]
Throw == [thrown |-> TRUE]

(***************************************************************************)
(* Ensemble scoring, thresholding and risk bucketing                       *)
(***************************************************************************)

\* 1.0 of a model score
One == 1000

\* 1.0 of an ensemble score (model score times percent weight)
EnsOne == 100 * One

Models == {"autoencoder", "lstm", "xgboost", "randomforest", "isolationforest"}

\* a weight set whose xgboost share was raised without lowering another
ENSEMBLE_WEIGHTS_Unbalanced ==
    [autoencoder |-> 25, lstm |-> 25, xgboost |-> 25,
     randomforest |-> 15, isolationforest |-> 15]

\* a weight set that lost the isolation forest share
ENSEMBLE_WEIGHTS_NoIsolationForest ==
    [autoencoder |-> 25, lstm |-> 25, xgboost |-> 20,
     randomforest |-> 15, isolationforest |-> 0]

ENSEMBLE_WEIGHTS ==
    [autoencoder |-> 25, lstm |-> 25, xgboost |-> 20,
     randomforest |-> 15, isolationforest |-> 15]

RECURSIVE WeightedSum(_, _)
WeightedSum(s, ms) ==
    IF ms = {} THEN 0
    ELSE LET m == CHOOSE x \in ms : TRUE
         IN  s[m] * ENSEMBLE_WEIGHTS[m] + WeightedSum(s, ms \ {m})

\* ensemble_score = SUM (model_score * weight)
EnsembleScore(s) == WeightedSum(s, DOMAIN ENSEMBLE_WEIGHTS)

\* a strict comparison
Classify_Strict(score, thr) == IF score > thr THEN 1 ELSE 0

\* a comparison that flags the scores at or below the threshold
Classify_Below(score, thr) == IF score <= thr THEN 1 ELSE 0

\* prediction = ensemble_score >= threshold
Classify(score, thr) == IF score >= thr THEN 1 ELSE 0

\* the High boundary taken inclusively
get_risk_category_Inclusive(ensemble_score) ==
    IF ensemble_score >= 70000 THEN "High"
    ELSE IF ensemble_score > 40000 THEN "Medium"
    ELSE IF ensemble_score > 20000 THEN "Low"
    ELSE "Minimal"

get_risk_category(ensemble_score) ==
    IF ensemble_score > 70000 THEN "High"
    ELSE IF ensemble_score > 40000 THEN "Medium"
    ELSE IF ensemble_score > 20000 THEN "Low"
    ELSE "Minimal"

\* the thresholds the service has run with: 0.4296, 0.435, 0.45, 0.47, 0.6
Thresholds == {42960, 43500, 45000, 47000, 60000}

\* the model scores considered: 0, 0.2, 0.4, 0.435, 0.7, 1
ScoreValues == {0, 200, 400, 435, 700, One}

\* a consumer whose five model scores are known and not yet combined
Unscored(s) == [scored |-> FALSE, scores |-> s]

\* the service combines the model scores of the consumer
Predict ==
    /\ ~consumer.scored
    /\ consumer' =
         LET e == EnsembleScore(consumer.scores)
         IN  [scored |-> TRUE,
              scores |-> consumer.scores,
              ensemble_score |-> e,
              ensemble_prediction |-> Classify(e, threshold),
              risk_category |-> get_risk_category(e)]
    /\ UNCHANGED <<threshold, disk, consumersReq, predictReq, generateReq, evaluationReq,
                 modelsPage, batch, uploadPage>>

InitScore ==
    /\ threshold \in Thresholds
    /\ consumer \in {Unscored(s) : s \in [Models -> ScoreValues]}
    /\ disk = NoFile
    /\ consumersReq = Idle
    /\ predictReq = Idle
    /\ generateReq = Idle
    /\ evaluationReq = Idle
    /\ modelsPage = Idle
    /\ batch = Idle
    /\ uploadPage = Idle

NextScore == Predict

SpecScore == InitScore /\ [][NextScore]_vars

(***************************************************************************)
(* The service classifying a batch of consumers, and the threshold being   *)
(* retuned between runs                                                    *)
(***************************************************************************)

\* the most consumers in a batch
MaxBatch == 2

\* the ensemble scores considered: 0.4, 0.4349, 0.435, 0.45, 0.6
BatchScores == {40000, 43490, 43500, 45000, 60000}

\* the consumers of the batch the service flags at threshold thr
Flagged(scores, thr) == {i \in 1..Len(scores) : Classify(scores[i], thr) = 1}

\* CLASSIFICATION_THRESHOLD is given another value
SetThreshold(t) ==
    /\ t # threshold
    /\ threshold' = t
    /\ UNCHANGED <<consumer, disk, consumersReq, predictReq, generateReq, evaluationReq,
                 modelsPage, batch, uploadPage>>

\* the batch is classified with the threshold in force
PredictBatch ==
    /\ \A r \in batch.runs : r.threshold # threshold
    /\ batch' = [batch EXCEPT !.runs =
                    @ \cup {[threshold |-> threshold,
                             flagged |-> Flagged(batch.scores, threshold)]}]
    /\ UNCHANGED <<threshold, consumer, disk, consumersReq, predictReq, generateReq,
                 evaluationReq, modelsPage, uploadPage>>

InitBatch ==
    /\ threshold \in Thresholds
    /\ consumer = Unscored([m \in Models |-> 0])
    /\ disk = NoFile
    /\ consumersReq = Idle
    /\ predictReq = Idle
    /\ generateReq = Idle
    /\ evaluationReq = Idle
    /\ modelsPage = Idle
    /\ batch \in {[pc |-> "ready", scores |-> sc, runs |-> {}] :
                     sc \in UNION {[1..n -> BatchScores] : n \in 1..MaxBatch}}
    /\ uploadPage = Idle

NextBatch ==
    \/ \E t \in Thresholds : SetThreshold(t)
    \/ PredictBatch

SpecBatch == InitBatch /\ [][NextBatch]_vars

(***************************************************************************)
(* GET /api/consumers                                                      *)
(* A string is a sequence of one-character strings.                        *)
(***************************************************************************)

NL == "\n"
Whitespace == {" ", NL, "\t", "\r"}
Chars == {"a", ",", " ", NL}

\* the longest consumer_risk_scores.csv considered, in characters
MaxFileLen == 5

\* the most predictions in a backend answer to GET /predictions/latest
MaxLivePredictions == 1

\* String.prototype.split with a one-character separator
RECURSIVE Split(_, _)
Split(s, sep) ==
    LET at == {i \in 1..Len(s) : s[i] = sep}
    IN  IF at = {} THEN <<s>>
        ELSE <<SubSeq(s, 1, Min(at) - 1)>> \o Split(SubSeq(s, Min(at) + 1, Len(s)), sep)

\* String.prototype.trim
Trim(s) ==
    LET ink == {i \in 1..Len(s) : s[i] \notin Whitespace}
    IN  IF ink = {} THEN <<>> ELSE SubSeq(s, Min(ink), Max(ink))

\* one object per line: consumer[header.trim()] = values[idx]?.trim() || ''
\* for each header in order, so a repeated header keeps its last column
CsvRow(headers, line) ==
    LET values == Split(line, ",")
        keys == {Trim(headers[i]) : i \in 1..Len(headers)}
    IN  [k \in keys |->
            LET idx == Max({i \in 1..Len(headers) : Trim(headers[i]) = k})
            IN  IF idx <= Len(values) THEN Trim(values[idx]) ELSE <<>>]

NonBlank(line) == Trim(line) # <<>>

ParseCsv(csvData) ==
    LET lines == Split(csvData, NL)
        headers == Split(lines[1], ",")
        kept == SelectSeq(Tail(lines), NonBlank)
    IN  [i \in 1..Len(kept) |-> CsvRow(headers, kept[i])]

\* readFileSync and the parse inside one try: the rows, or the given error
CsvFallback(file, status, message) ==
    IF file.readable
    THEN Json(200, [error |-> "", live |-> FALSE, consumers |-> ParseCsv(file.data)])
    ELSE Json(status, [error |-> message, live |-> FALSE, consumers |-> <<>>])

\* pred.true_theft_label ?? pred.ensemble_prediction
TransformPrediction(pred) ==
    [ensemble_prediction |-> pred.ensemble_prediction,
     true_theft_label |->
        IF pred.labelled THEN pred.true_theft_label ELSE pred.ensemble_prediction]

\* a try block whose 404 branch answers 500 like the catch block
ConsumersTry_Always500(b, file) ==
    IF b.kind = "unreachable" THEN Throw
    ELSE IF b.kind = "status"
    THEN IF b.status = 404
         THEN Return(CsvFallback(file, 500, "Failed to load consumer data"))
         ELSE Throw
    ELSE IF b.body # "predictions" THEN Throw
    ELSE IF \E i \in 1..Len(b.predictions) : b.predictions[i].kind = "null" THEN Throw
    ELSE Return(Json(200,
            [error |-> "", live |-> TRUE,
             consumers |-> [i \in 1..Len(b.predictions) |->
                               TransformPrediction(b.predictions[i])]]))

\* the try block of the handler
ConsumersTry(b, file) ==
    IF b.kind = "unreachable" THEN Throw
    ELSE IF b.kind = "status"
    THEN IF b.status = 404
         THEN Return(CsvFallback(file, 404, "No consumer data available"))
         ELSE Throw
    ELSE IF b.body # "predictions" THEN Throw
    ELSE IF \E i \in 1..Len(b.predictions) : b.predictions[i].kind = "null" THEN Throw
    ELSE Return(Json(200,
            [error |-> "", live |-> TRUE,
             consumers |-> [i \in 1..Len(b.predictions) |->
                               TransformPrediction(b.predictions[i])]]))

\* the catch block of the handler
ConsumersCatch(file) == CsvFallback(file, 500, "Failed to load consumer data")

ConsumersResponse(b, file) ==
    LET r == ConsumersTry(b, file)
    IN  IF r.thrown THEN ConsumersCatch(file) ELSE r.response

Files == UNION {[1..n -> Chars] : n \in 0..MaxFileLen}

LivePrediction ==
    {[kind |-> "null"]}
    \cup {[kind |-> "object", ensemble_prediction |-> p, labelled |-> FALSE,
           true_theft_label |-> 0] : p \in {0, 1}}
    \cup {[kind |-> "object", ensemble_prediction |-> p, labelled |-> TRUE,
           true_theft_label |-> l] : p \in {0, 1}, l \in {0, 1}}

\* what the fetch of /predictions/latest can come to
ConsumersBackend ==
    {[kind |-> "unreachable"],
     [kind |-> "status", status |-> 404],
     [kind |-> "status", status |-> 500],
     [kind |-> "ok", body |-> "invalid_json"],
     [kind |-> "ok", body |-> "no_predictions"]}
    \cup {[kind |-> "ok", body |-> "predictions", predictions |-> ps] :
            ps \in UNION {[1..n -> LivePrediction] : n \in 0..MaxLivePredictions}}

GET_consumers(b) ==
    /\ consumersReq.pc = "idle"
    /\ consumersReq' = [pc |-> "done", backend |-> b,
                        response |-> ConsumersResponse(b, disk)]
    /\ UNCHANGED <<threshold, consumer, disk, predictReq, generateReq, evaluationReq,
                 modelsPage, batch, uploadPage>>

\* the response is sent; the handler keeps nothing
ConsumersDone ==
    /\ consumersReq.pc = "done"
    /\ consumersReq' = Idle
    /\ UNCHANGED <<threshold, consumer, disk, predictReq, generateReq, evaluationReq,
                 modelsPage, batch, uploadPage>>

InitConsumers ==
    /\ threshold = 43500
    /\ consumer = Unscored([m \in Models |-> 0])
    /\ disk \in {NoFile} \cup {[readable |-> TRUE, data |-> f] : f \in Files}
    /\ consumersReq = Idle
    /\ predictReq = Idle
    /\ generateReq = Idle
    /\ evaluationReq = Idle
    /\ modelsPage = Idle
    /\ batch = Idle
    /\ uploadPage = Idle

NextConsumers ==
    \/ \E b \in ConsumersBackend : GET_consumers(b)
    \/ ConsumersDone

SpecConsumers == InitConsumers /\ [][NextConsumers]_vars

(***************************************************************************)
(* POST /api/predict                                                       *)
(***************************************************************************)

\* the most predictions in a backend answer to POST /predict
MaxPredictions == 2

DotCsv == <<".", "c", "s", "v">>

\* a test for '.csv' anywhere in the name
EndsWith_Contains(s, suffix) ==
    \E i \in 1..Len(s) :
        /\ i + Len(suffix) - 1 <= Len(s)
        /\ SubSeq(s, i, i + Len(suffix) - 1) = suffix

\* String.prototype.endsWith
EndsWith(s, suffix) ==
    /\ Len(s) >= Len(suffix)
    /\ SubSeq(s, Len(s) - Len(suffix) + 1, Len(s)) = suffix

NoSummary ==
    [total |-> 0, theft_detected |-> 0, high_risk |-> 0, medium_risk |-> 0,
     low_risk |-> 0, minimal_risk |-> 0]

\* an error body of the predict route
PredictError(status, error, details) ==
    Json(status, [success |-> FALSE, error |-> error, details |-> details,
                  predictions |-> <<>>, summary |-> NoSummary])

NotAvailable == "Python backend is not available. Please ensure the Python API server is running on port 8000."

\* predictions.filter(p => p.<field> === value).length
CountWhere(predictions, field, value) ==
    Len(SelectSeq(predictions, LAMBDA p : p[field] = value))

\* a summary that counts every non-zero prediction as theft
Summary_CountsNonZero(predictions) ==
    [total |-> Len(predictions),
     theft_detected |-> Len(SelectSeq(predictions, LAMBDA p : p.ensemble_prediction # 0)),
     high_risk |-> CountWhere(predictions, "risk_category", "High"),
     medium_risk |-> CountWhere(predictions, "risk_category", "Medium"),
     low_risk |-> CountWhere(predictions, "risk_category", "Low"),
     minimal_risk |-> CountWhere(predictions, "risk_category", "Minimal")]

Summary(predictions) ==
    [total |-> Len(predictions),
     theft_detected |-> CountWhere(predictions, "ensemble_prediction", 1),
     high_risk |-> CountWhere(predictions, "risk_category", "High"),
     medium_risk |-> CountWhere(predictions, "risk_category", "Medium"),
     low_risk |-> CountWhere(predictions, "risk_category", "Low"),
     minimal_risk |-> CountWhere(predictions, "risk_category", "Minimal")]

\* the checks before the inner try: a response, or Throw into the outer
\* catch, or nothing when the request goes on to the backend
PredictValidate(form) ==
    IF form.kind = "unparseable" THEN Throw
    ELSE IF form.kind = "empty" \/ (form.kind = "text" /\ form.value = <<>>)
    THEN Return(PredictError(400, "No file uploaded", ""))
    ELSE IF form.kind = "text" THEN Throw
    ELSE IF ~EndsWith(form.name, DotCsv)
    THEN Return(PredictError(400, "File must be a CSV", ""))
    ELSE [thrown |-> FALSE, forward |-> TRUE]

\* the outer catch
PredictOuterCatch(form) ==
    PredictError(500,
        IF form.kind = "unparseable" THEN "Failed to parse body as FormData"
        ELSE "Cannot read properties of undefined (reading 'endsWith')", "")

\* the message of the error the inner try throws, or "" when it returns
PredictInnerError(b) ==
    IF b.kind = "unreachable" THEN "fetch failed"
    ELSE IF b.kind = "notok"
    THEN IF b.body = "detail" THEN "backend detail"
         ELSE IF b.body = "no_detail" THEN "Python API request failed"
         ELSE IF b.body = "invalid_json" THEN "Unknown error"
         ELSE "Cannot read properties of null (reading 'detail')"
    ELSE IF b.body = "invalid_json" THEN "Unexpected token"
    ELSE IF b.body = "null" THEN "Cannot read properties of null (reading 'predictions')"
    ELSE IF b.body = "no_predictions"
    THEN "Cannot read properties of undefined (reading 'length')"
    ELSE IF b.body = "text_predictions" THEN "predictions.filter is not a function"
    ELSE IF \E i \in 1..Len(b.predictions) : b.predictions[i].kind = "null"
    THEN "Cannot read properties of null (reading 'ensemble_prediction')"
    ELSE ""

\* a forward step that reads a missing predictions field as an empty list
PredictForward_DefaultsToEmpty(b) ==
    IF b.kind = "ok" /\ b.body = "no_predictions"
    THEN Json(200, [success |-> TRUE, error |-> "", details |-> "",
                    predictions |-> <<>>, summary |-> Summary(<<>>)])
    ELSE IF PredictInnerError(b) # ""
    THEN PredictError(503, NotAvailable, PredictInnerError(b))
    ELSE Json(200, [success |-> TRUE, error |-> "", details |-> "",
                    predictions |-> b.predictions,
                    summary |-> Summary(b.predictions)])

\* the inner try and its catch
PredictForward(b) ==
    IF PredictInnerError(b) # ""
    THEN PredictError(503, NotAvailable, PredictInnerError(b))
    ELSE Json(200, [success |-> TRUE, error |-> "", details |-> "",
                    predictions |-> b.predictions,
                    summary |-> Summary(b.predictions)])

FileNames ==
    {<<"d">> \o DotCsv, DotCsv, <<"d", ".", "C", "S", "V">>, <<"d", ".", "t", "x", "t">>,
     <<"c", "s", "v">>, <<"d">> \o DotCsv \o <<".", "x">>, <<>>}

PredictForms ==
    {[kind |-> "unparseable"], [kind |-> "empty"],
     [kind |-> "text", value |-> <<>>], [kind |-> "text", value |-> <<"d">> \o DotCsv]}
    \cup {[kind |-> "file", name |-> n] : n \in FileNames}

PredictionResult ==
    {[kind |-> "null"]}
    \cup {[kind |-> "object", ensemble_prediction |-> p, risk_category |-> c] :
            p \in {0, 1, 2}, c \in {"High", "Medium", "Low", "Minimal", "Critical"}}

\* what the fetch of /predict can come to
PredictBackend ==
    {[kind |-> "unreachable"]}
    \cup {[kind |-> "notok", body |-> x] :
            x \in {"detail", "no_detail", "invalid_json", "null"}}
    \cup {[kind |-> "ok", body |-> x] :
            x \in {"invalid_json", "null", "no_predictions", "text_predictions"}}
    \cup {[kind |-> "ok", body |-> "list", predictions |-> ps] :
            ps \in UNION {[1..n -> PredictionResult] : n \in 0..MaxPredictions}}

NoBackend == [kind |-> "none"]

\* the handler up to the fetch
POST_predict(form) ==
    /\ predictReq.pc = "idle"
    /\ LET v == PredictValidate(form)
       IN  predictReq' =
             IF v.thrown
             THEN [pc |-> "done", form |-> form, sent |-> 0, backend |-> NoBackend,
                   response |-> PredictOuterCatch(form)]
             ELSE IF "forward" \in DOMAIN v
             THEN [pc |-> "fetch", form |-> form, sent |-> 1]
             ELSE [pc |-> "done", form |-> form, sent |-> 0, backend |-> NoBackend,
                   response |-> v.response]
    /\ UNCHANGED <<threshold, consumer, disk, consumersReq, generateReq, evaluationReq,
                 modelsPage, batch, uploadPage>>

\* the handler from the outcome of the fetch on
POST_predict_fetched(b) ==
    /\ predictReq.pc = "fetch"
    /\ predictReq' = [pc |-> "done", form |-> predictReq.form, sent |-> predictReq.sent,
                      backend |-> b, response |-> PredictForward(b)]
    /\ UNCHANGED <<threshold, consumer, disk, consumersReq, generateReq, evaluationReq,
                 modelsPage, batch, uploadPage>>

PredictDone ==
    /\ predictReq.pc = "done"
    /\ predictReq' = Idle
    /\ UNCHANGED <<threshold, consumer, disk, consumersReq, generateReq, evaluationReq,
                 modelsPage, batch, uploadPage>>

InitPredict ==
    /\ threshold = 43500
    /\ consumer = Unscored([m \in Models |-> 0])
    /\ disk = NoFile
    /\ consumersReq = Idle
    /\ predictReq = Idle
    /\ generateReq = Idle
    /\ evaluationReq = Idle
    /\ modelsPage = Idle
    /\ batch = Idle
    /\ uploadPage = Idle

NextPredict ==
    \/ \E form \in PredictForms : POST_predict(form)
    \/ \E b \in PredictBackend : POST_predict_fetched(b)
    \/ PredictDone

SpecPredict == InitPredict /\ [][NextPredict]_vars

(***************************************************************************)
(* POST /api/generate-data                                                 *)
(* A JSON value is a record: its JavaScript type and the number it         *)
(* converts to.  theft_rate is in thousandths.                             *)
(***************************************************************************)

Num(n) == [t |-> "number", v |-> n]
Undefined == [t |-> "undefined", v |-> 0]
Null == [t |-> "null", v |-> 0]
\* a string that Number() reads as n
NumStr(n) == [t |-> "numstr", v |-> n]
\* a non-empty string that Number() reads as NaN
Text == [t |-> "text", v |-> 0]

\* the value converts to NaN
IsNaN(x) == x.t \in {"undefined", "text"}

\* !x
Falsy(x) == x.t \in {"undefined", "null"} \/ (x.t = "number" /\ x.v = 0)

\* x < n and x > n for a number n: false when x converts to NaN
Lt(x, n) == ~IsNaN(x) /\ x.v < n
Gt(x, n) == ~IsNaN(x) /\ x.v > n

GenerateError(status, error) == [status |-> status, error |-> error, csv |-> FALSE]

NotForwarded == [sent |-> FALSE]

\* the validation of lines 9-28: the 400 response, or the values to forward
GenerateValidate(body) ==
    IF body.kind # "object" THEN Throw
    ELSE IF Falsy(body.num_consumers) \/ Lt(body.num_consumers, 10)
            \/ Gt(body.num_consumers, 1000)
    THEN Return(GenerateError(400, "Number of consumers must be between 10 and 1000"))
    ELSE IF Falsy(body.days) \/ Lt(body.days, 1) \/ Gt(body.days, 365)
    THEN Return(GenerateError(400, "Number of days must be between 1 and 365"))
    ELSE IF Lt(body.theft_rate, 0) \/ Gt(body.theft_rate, 500)
    THEN Return(GenerateError(400, "Theft rate must be between 0 and 0.5"))
    ELSE [thrown |-> FALSE,
          forward |-> [sent |-> TRUE, num_consumers |-> body.num_consumers,
                       days |-> body.days, theft_rate |-> body.theft_rate]]

InternalServerError == GenerateError(500, "Internal server error")

\* the handler after the fetch
GenerateForward(b) ==
    IF b.kind = "unreachable" THEN InternalServerError
    ELSE IF b.kind = "notok"
    THEN IF b.body \in {"invalid_json", "null"} THEN InternalServerError
         ELSE GenerateError(b.status,
                 IF b.body = "detail" THEN "backend detail" ELSE "Failed to generate data")
    ELSE [status |-> 200, error |-> "", csv |-> TRUE]

GenerateBodies ==
    {[kind |-> "unparseable"], [kind |-> "null"]}
    \cup {[kind |-> "object", num_consumers |-> n, days |-> d, theft_rate |-> r] :
            n \in {Undefined, Null, Text, NumStr(50), Num(0 - 5), Num(0), Num(9),
                   Num(10), Num(1000), Num(1001)},
            d \in {Undefined, Text, NumStr(30), Num(0), Num(1), Num(365), Num(366)},
            r \in {Undefined, Null, Text, NumStr(200), Num(0 - 1), Num(0), Num(200),
                   Num(500), Num(501)}}

\* what the fetch of /generate-data can come to
GenerateBackend ==
    {[kind |-> "unreachable"], [kind |-> "ok"]}
    \cup {[kind |-> "notok", status |-> s, body |-> x] :
            s \in {400, 500}, x \in {"detail", "no_detail", "invalid_json", "null"}}

\* the handler up to the fetch
POST_generate_data(body) ==
    /\ generateReq.pc = "idle"
    /\ LET v == GenerateValidate(body)
       IN  generateReq' =
             IF v.thrown
             THEN [pc |-> "done", body |-> body, forwarded |-> NotForwarded,
                   response |-> InternalServerError]
             ELSE IF "forward" \in DOMAIN v
             THEN [pc |-> "fetch", body |-> body, forwarded |-> v.forward]
             ELSE [pc |-> "done", body |-> body, forwarded |-> NotForwarded,
                   response |-> v.response]
    /\ UNCHANGED <<threshold, consumer, disk, consumersReq, predictReq, evaluationReq,
                 modelsPage, batch, uploadPage>>

\* the handler from the outcome of the fetch on
POST_generate_data_fetched(b) ==
    /\ generateReq.pc = "fetch"
    /\ generateReq' = [pc |-> "done", body |-> generateReq.body,
                       forwarded |-> generateReq.forwarded,
                       response |-> GenerateForward(b)]
    /\ UNCHANGED <<threshold, consumer, disk, consumersReq, predictReq, evaluationReq,
                 modelsPage, batch, uploadPage>>

GenerateDone ==
    /\ generateReq.pc = "done"
    /\ generateReq' = Idle
    /\ UNCHANGED <<threshold, consumer, disk, consumersReq, predictReq, evaluationReq,
                 modelsPage, batch, uploadPage>>

InitGenerate ==
    /\ threshold = 43500
    /\ consumer = Unscored([m \in Models |-> 0])
    /\ disk = NoFile
    /\ consumersReq = Idle
    /\ predictReq = Idle
    /\ generateReq = Idle
    /\ evaluationReq = Idle
    /\ modelsPage = Idle
    /\ batch = Idle
    /\ uploadPage = Idle

NextGenerate ==
    \/ \E body \in GenerateBodies : POST_generate_data(body)
    \/ \E b \in GenerateBackend : POST_generate_data_fetched(b)
    \/ GenerateDone

SpecGenerate == InitGenerate /\ [][NextGenerate]_vars

(***************************************************************************)
(* GET /api/evaluation                                                     *)
(* A quotient is kept as a fraction in lowest terms.                       *)
(***************************************************************************)

\* the most consumers in a backend summary
MaxConsumers == 3

RECURSIVE GCD(_, _)
GCD(a, b) == IF b = 0 THEN a ELSE GCD(b, a % b)

\* n / d for d > 0
Frac(n, d) == [num |-> n \div GCD(n, d), den |-> d \div GCD(n, d)]

Zero == Frac(0, 1)
OneWhole == Frac(1, 1)

NoRisk == [High |-> 0, Medium |-> 0, Low |-> 0, Minimal |-> 0]

\* the placeholder both fallback paths return
DefaultEvaluation(message) ==
    Json(200,
        [evaluation_summary |->
            [ensemble_accuracy |-> 0,
             ensemble_precision |-> Zero,
             ensemble_recall |-> Zero,
             ensemble_f1 |-> Zero,
             ensemble_auc |-> 0,
             confusion_matrix |->
                [true_positive |-> 0, false_positive |-> 0,
                 true_negative |-> 0, false_negative |-> 0],
             risk_distribution |-> NoRisk,
             total_consumers |-> 0,
             theft_consumers_detected |-> 0,
             actual_theft_consumers |-> 0],
         is_live_data |-> FALSE,
         message |-> message])

\* a live path whose recall is the detection rate
DashboardData_RecallIsRate(summary) ==
    LET detectionRate ==
            IF summary.total > 0 THEN Frac(summary.theft_detected, summary.total)
            ELSE Zero
        avgEnsembleScore ==
            IF summary.has_average_scores THEN summary.average_ensemble ELSE 0
    IN  Json(200,
            [evaluation_summary |->
                [ensemble_accuracy |-> avgEnsembleScore,
                 ensemble_precision |-> detectionRate,
                 ensemble_recall |-> detectionRate,
                 ensemble_f1 |-> detectionRate,
                 ensemble_auc |-> avgEnsembleScore,
                 confusion_matrix |->
                    [true_positive |-> summary.theft_detected, false_positive |-> 0,
                     true_negative |-> summary.normal_detected, false_negative |-> 0],
                 risk_distribution |-> summary.risk_distribution,
                 total_consumers |-> summary.total,
                 theft_consumers_detected |-> summary.theft_detected,
                 actual_theft_consumers |-> summary.theft_detected],
             is_live_data |-> TRUE,
             message |-> ""])

\* the live path of lines 52-87
DashboardData(summary) ==
    LET detectionRate ==
            IF summary.total > 0 THEN Frac(summary.theft_detected, summary.total)
            ELSE Zero
        avgEnsembleScore ==
            IF summary.has_average_scores THEN summary.average_ensemble ELSE 0
    IN  Json(200,
            [evaluation_summary |->
                [ensemble_accuracy |-> avgEnsembleScore,
                 ensemble_precision |-> detectionRate,
                 ensemble_recall |-> IF summary.theft_detected > 0 THEN OneWhole ELSE Zero,
                 ensemble_f1 |-> detectionRate,
                 ensemble_auc |-> avgEnsembleScore,
                 confusion_matrix |->
                    [true_positive |-> summary.theft_detected, false_positive |-> 0,
                     true_negative |-> summary.normal_detected, false_negative |-> 0],
                 risk_distribution |-> summary.risk_distribution,
                 total_consumers |-> summary.total,
                 theft_consumers_detected |-> summary.theft_detected,
                 actual_theft_consumers |-> summary.theft_detected],
             is_live_data |-> TRUE,
             message |-> ""])

\* a try block whose 404 branch answers with the backend's status
EvaluationTry_Passes404(b) ==
    IF b.kind = "unreachable" THEN Throw
    ELSE IF b.kind = "status"
    THEN IF b.status = 404
         THEN Return([DefaultEvaluation(
                 "No predictions available. Please upload and analyze data first.")
                 EXCEPT !.status = 404])
         ELSE Throw
    ELSE IF b.body # "summary" THEN Throw
    ELSE Return(DashboardData(b.summary))

\* the try block of the handler
EvaluationTry(b) ==
    IF b.kind = "unreachable" THEN Throw
    ELSE IF b.kind = "status"
    THEN IF b.status = 404
         THEN Return(DefaultEvaluation(
                 "No predictions available. Please upload and analyze data first."))
         ELSE Throw
    ELSE IF b.body # "summary" THEN Throw
    ELSE Return(DashboardData(b.summary))

\* the catch block of the handler
EvaluationCatch ==
    DefaultEvaluation("No data available. Please upload and analyze data first.")

EvaluationResponse(b) ==
    LET r == EvaluationTry(b)
    IN  IF r.thrown THEN EvaluationCatch ELSE r.response

BackendSummary ==
    [total : 0..MaxConsumers,
     theft_detected : 0..MaxConsumers,
     normal_detected : 0..MaxConsumers,
     has_average_scores : {TRUE},
     average_ensemble : {0, 435},
     risk_distribution : {NoRisk, [High |-> 1, Medium |-> 0, Low |-> 1, Minimal |-> 1]}]
    \cup
    [total : 0..MaxConsumers,
     theft_detected : 0..MaxConsumers,
     normal_detected : 0..MaxConsumers,
     has_average_scores : {FALSE},
     average_ensemble : {0},
     risk_distribution : {NoRisk}]

\* what the fetch of /predictions/latest can come to
EvaluationBackend ==
    {[kind |-> "unreachable"],
     [kind |-> "status", status |-> 404],
     [kind |-> "status", status |-> 500],
     [kind |-> "ok", body |-> "invalid_json"],
     [kind |-> "ok", body |-> "null"],
     [kind |-> "ok", body |-> "no_summary"]}
    \cup {[kind |-> "ok", body |-> "summary", summary |-> x] : x \in BackendSummary}

GET_evaluation(b) ==
    /\ evaluationReq.pc = "idle"
    /\ evaluationReq' = [pc |-> "done", backend |-> b, response |-> EvaluationResponse(b)]
    /\ UNCHANGED <<threshold, consumer, disk, consumersReq, predictReq, generateReq,
                 modelsPage, batch, uploadPage>>

EvaluationDone ==
    /\ evaluationReq.pc = "done"
    /\ evaluationReq' = Idle
    /\ UNCHANGED <<threshold, consumer, disk, consumersReq, predictReq, generateReq,
                 modelsPage, batch, uploadPage>>

InitEvaluation ==
    /\ threshold = 43500
    /\ consumer = Unscored([m \in Models |-> 0])
    /\ disk = NoFile
    /\ consumersReq = Idle
    /\ predictReq = Idle
    /\ generateReq = Idle
    /\ evaluationReq = Idle
    /\ modelsPage = Idle
    /\ batch = Idle
    /\ uploadPage = Idle

NextEvaluation ==
    \/ \E b \in EvaluationBackend : GET_evaluation(b)
    \/ EvaluationDone

SpecEvaluation == InitEvaluation /\ [][NextEvaluation]_vars

(***************************************************************************)
(* The models page: calculateConfusionMatrix                               *)
(* Percentages are fractions in lowest terms.                              *)
(***************************************************************************)

\* the most consumers in the list the page fetched
MaxPageConsumers == 3

\* x === n for a number n
StrictEq(x, n) == x.t = "number" /\ x.v = n

\* (n / d) * 100 for d > 0
Percent(n, d) == Frac(100 * n, d)

\* no matrix is shown
NoMatrix == [present |-> FALSE]

\* consumer.true_theft_label ?? predicted
Actual(c) ==
    IF c.true_theft_label.t \in {"undefined", "null"} THEN c.ensemble_prediction
    ELSE c.true_theft_label

\* the four counters after data.forEach
CountCell(data, p, a) ==
    Cardinality({i \in 1..Len(data) :
        StrictEq(data[i].ensemble_prediction, p) /\ StrictEq(Actual(data[i]), a)})

calculateConfusionMatrix(data) ==
    IF Len(data) = 0 THEN NoMatrix
    ELSE
    LET hasRealGroundTruth ==
            \E i \in 1..Len(data) :
                /\ data[i].true_theft_label # Undefined
                /\ data[i].true_theft_label # data[i].ensemble_prediction
        truePositive == CountCell(data, 1, 1)
        falsePositive == CountCell(data, 1, 0)
        trueNegative == CountCell(data, 0, 0)
        falseNegative == CountCell(data, 0, 1)
        total == truePositive + falsePositive + trueNegative + falseNegative
        accuracy == IF total > 0 THEN Percent(truePositive + trueNegative, total) ELSE Zero
        precision ==
            IF truePositive + falsePositive > 0
            THEN Percent(truePositive, truePositive + falsePositive) ELSE Zero
        recall ==
            IF truePositive + falseNegative > 0
            THEN Percent(truePositive, truePositive + falseNegative) ELSE Zero
        \* (2 * precision * recall) / (precision + recall)
        f1Score ==
            IF precision.num > 0 \/ recall.num > 0
            THEN Frac(2 * precision.num * recall.num,
                      precision.num * recall.den + recall.num * precision.den)
            ELSE Zero
    IN  [present |-> TRUE,
         truePositive |-> truePositive,
         falsePositive |-> falsePositive,
         trueNegative |-> trueNegative,
         falseNegative |-> falseNegative,
         accuracy |-> accuracy,
         precision |-> precision,
         recall |-> recall,
         f1Score |-> f1Score,
         hasGroundTruth |-> hasRealGroundTruth]

\* an element of the list /api/consumers answers with: numbers on the live
\* path, strings and missing columns on the CSV path
PageConsumer ==
    [ensemble_prediction : {Num(0), Num(1), NumStr(1)},
     true_theft_label : {Undefined, Num(0), Num(1), NumStr(1)}]

\* what the two fetches of fetchData can come to
PageData ==
    {[kind |-> "failed"], [kind |-> "error"]}
    \cup {[kind |-> "list", items |-> cs] :
            cs \in UNION {[1..n -> PageConsumer] : n \in 0..MaxPageConsumers}}

\* useEffect: fetchData, with its catch
ModelsPage_fetchData(data) ==
    /\ modelsPage.pc = "idle"
    /\ modelsPage' =
         [pc |-> "loaded",
          data |-> data,
          confusionMatrix |->
             IF data.kind = "list" THEN calculateConfusionMatrix(data.items)
             ELSE NoMatrix]
    /\ UNCHANGED <<threshold, consumer, disk, consumersReq, predictReq, generateReq,
                   evaluationReq, batch, uploadPage>>

InitModelsPage ==
    /\ threshold = 43500
    /\ consumer = Unscored([m \in Models |-> 0])
    /\ disk = NoFile
    /\ consumersReq = Idle
    /\ predictReq = Idle
    /\ generateReq = Idle
    /\ evaluationReq = Idle
    /\ modelsPage = Idle
    /\ batch = Idle
    /\ uploadPage = Idle

NextModelsPage == \E data \in PageData : ModelsPage_fetchData(data)

SpecModelsPage == InitModelsPage /\ [][NextModelsPage]_vars

(***************************************************************************)
(* The upload page (working/page.tsx).  A value of React state that may be *)
(* null is a sequence: <<>> for null, <<x>> for x.  The text fields of the *)
(* manual-entry form are inputs of handleAddManualEntry; results is only   *)
(* ever set to null and is left out.                                       *)
(***************************************************************************)

\* the most entries the manual list is let to grow to
MaxEntries == 2

\* the most prediction requests the page is let to have in flight
MaxRequests == 1

\* the names of the files a user drops or chooses
PageFiles ==
    {<<"d">> \o DotCsv, DotCsv, <<"d", ".", "t", "x", "t">>,
     <<"d">> \o DotCsv \o <<".", "x">>}

\* e.dataTransfer.files / e.target.files: nothing, or a first file
FileLists == {<<>>} \cup {<<n>> : n \in PageFiles}

\* an element of manualEntries: an entry, a hole (an index the array never
\* assigned), or undefined
Entry(id) == [kind |-> "entry", consumer_id |-> id]
Hole == [kind |-> "hole", consumer_id |-> ""]
UndefinedEntry == [kind |-> "undefined", consumer_id |-> ""]

\* [...entries]: the iterator yields undefined for a hole
Spread(entries) ==
    [i \in 1..Len(entries) |-> IF entries[i].kind = "hole" THEN UndefinedEntry ELSE entries[i]]

\* entries.filter((_, i) => i !== index): filter does not visit holes
FilterOut(entries, index) ==
    LET keep == {i \in 1..Len(entries) : i # index /\ entries[i].kind # "hole"}
        nth(k) == CHOOSE i \in keep : Cardinality({j \in keep : j <= i}) = k
    IN  [k \in 1..Cardinality(keep) |-> entries[nth(k)]]

\* the render after a state change: the entry list of the manual tab reads
\* entry.consumer_id of every element that is not a hole
Render(page) ==
    IF /\ page.activeTab = "manual"
       /\ \E i \in 1..Len(page.manualEntries) : page.manualEntries[i].kind = "undefined"
    THEN [page EXCEPT !.pc = "crashed"]
    ELSE page

\* what the fetch of /api/predict can come to
PredictOutcomes ==
    {[kind |-> "ok", error |-> ""],
     [kind |-> "notok", error |-> ""],
     [kind |-> "notok", error |-> "Backend server not available"],
     [kind |-> "thrown", error |-> "Failed to fetch"]}

Mounted == uploadPage.pc = "mounted"

PageUnchanged ==
    UNCHANGED <<threshold, consumer, disk, consumersReq, predictReq, generateReq,
                evaluationReq, modelsPage, batch>>

\* the body shared by handleDrop and handleFileChange
AcceptFile(files) ==
    IF files = <<>> THEN uploadPage
    ELSE IF EndsWith(files[1], DotCsv)
    THEN [uploadPage EXCEPT !.file = <<files[1]>>, !.error = <<>>]
    ELSE [uploadPage EXCEPT !.error = <<"Please upload a CSV file">>]

handleDrag(type) ==
    /\ Mounted
    /\ uploadPage' = [uploadPage EXCEPT
            !.dragActive = IF type \in {"dragenter", "dragover"} THEN TRUE
                           ELSE IF type = "dragleave" THEN FALSE ELSE @]
    /\ PageUnchanged

handleDrop(files) ==
    /\ Mounted
    /\ uploadPage' = [AcceptFile(files) EXCEPT
            !.dragActive = FALSE]
    /\ PageUnchanged

handleFileChange(files) ==
    /\ Mounted
    /\ uploadPage' = AcceptFile(files)
    /\ PageUnchanged

\* the Remove button: setFile(null)
RemoveFile ==
    /\ Mounted
    /\ uploadPage' = [uploadPage EXCEPT !.file = <<>>]
    /\ PageUnchanged

\* a tab button: setActiveTab(tab); setError(null)
SelectTab(tab) ==
    /\ Mounted
    /\ uploadPage' = Render([uploadPage EXCEPT !.activeTab = tab, !.error = <<>>])
    /\ PageUnchanged

\* an upload that posts whatever the file state holds
UploadStep_Unguarded ==
    [uploadPage EXCEPT
        !.loading = TRUE, !.error = <<>>,
        !.inflight = Append(@, [via |-> "upload", file |-> uploadPage.file, rows |-> 0])]

\* handleUpload up to its await
UploadStep ==
    IF uploadPage.file = <<>>
    THEN [uploadPage EXCEPT !.error = <<"Please select a file first">>]
    ELSE [uploadPage EXCEPT
            !.loading = TRUE, !.error = <<>>,
            !.inflight = Append(@, [via |-> "upload", file |-> uploadPage.file, rows |-> 0])]

handleUpload ==
    /\ Mounted
    /\ uploadPage' = UploadStep
    /\ Len(uploadPage'.inflight) <= MaxRequests
    /\ PageUnchanged

\* the lines of csvRows that hold a consumer: map leaves a hole a hole, and
\* join writes it as an empty line
CsvRows(entries) == Cardinality({i \in 1..Len(entries) : entries[i].kind = "entry"})

\* handleVerifyManualEntries up to its await
VerifyStep ==
    IF Len(uploadPage.manualEntries) = 0
    THEN [uploadPage EXCEPT !.error = <<"Please add at least one consumer entry">>]
    ELSE IF \E i \in 1..Len(uploadPage.manualEntries) :
                uploadPage.manualEntries[i].kind = "undefined"
    THEN \* entry.consumer_id throws inside the try: the catch block runs
         [uploadPage EXCEPT !.loading = FALSE, !.error = <<"TypeError">>]
    ELSE [uploadPage EXCEPT
            !.loading = TRUE, !.error = <<>>,
            !.inflight = Append(@, [via |-> "manual",
                                    file |-> <<<<"m">> \o DotCsv>>,
                                    rows |-> CsvRows(uploadPage.manualEntries)])]

handleVerifyManualEntries ==
    /\ Mounted
    /\ uploadPage' = VerifyStep
    /\ Len(uploadPage'.inflight) <= MaxRequests
    /\ PageUnchanged

\* the sequence without its i-th element
Without(seq, i) == SubSeq(seq, 1, i - 1) \o SubSeq(seq, i + 1, Len(seq))

\* the rest of handleUpload or handleVerifyManualEntries once the fetch settles
PredictSettled(i, outcome) ==
    /\ Mounted
    /\ i \in 1..Len(uploadPage.inflight)
    /\ uploadPage' =
         IF outcome.kind = "ok"
         THEN [uploadPage EXCEPT !.pc = "left", !.inflight = Without(@, i)]
         ELSE [uploadPage EXCEPT
                 !.error = IF outcome.kind = "thrown" \/ outcome.error # ""
                           THEN <<outcome.error>>
                           ELSE IF uploadPage.inflight[i].via = "upload"
                           THEN <<"Failed to process file">>
                           ELSE <<"Failed to process data">>,
                 !.loading = FALSE,
                 !.inflight = Without(@, i)]
    /\ PageUnchanged

handleReset ==
    /\ Mounted
    /\ uploadPage' = [uploadPage EXCEPT
            !.file = <<>>, !.error = <<>>, !.manualEntries = <<>>, !.editingIndex = <<>>]
    /\ PageUnchanged

\* updated[index] = newEntry, for a 1-based index that may lie past the end
Assign(entries, index, newEntry) ==
    [i \in 1..Max({Len(entries), index}) |->
        IF i = index THEN newEntry
        ELSE IF i <= Len(entries) THEN entries[i] ELSE Hole]

\* id is currentConsumerId.trim(), allZero is parsedValues.every(v => v === 0)
handleAddManualEntry(id, allZero) ==
    /\ Mounted
    /\ uploadPage' =
         IF id = "" THEN [uploadPage EXCEPT !.error = <<"Please enter a consumer ID">>]
         ELSE IF allZero
         THEN [uploadPage EXCEPT
                  !.error = <<"Please enter at least some consumption values">>]
         ELSE IF uploadPage.editingIndex # <<>>
         THEN Render([uploadPage EXCEPT
                  !.manualEntries = Assign(Spread(@), uploadPage.editingIndex[1], Entry(id)),
                  !.editingIndex = <<>>, !.error = <<>>])
         ELSE Render([uploadPage EXCEPT
                  !.manualEntries = Append(Spread(@), Entry(id)), !.error = <<>>])
    /\ Len(uploadPage'.manualEntries) <= MaxEntries
    /\ PageUnchanged

handleEditEntry(index) ==
    /\ Mounted
    /\ index \in 1..Len(uploadPage.manualEntries)
    /\ uploadPage.manualEntries[index].kind = "entry"
    /\ uploadPage' = [uploadPage EXCEPT
            !.editingIndex = <<index>>]
    /\ PageUnchanged

handleDeleteEntry(index) ==
    /\ Mounted
    /\ index \in 1..Len(uploadPage.manualEntries)
    /\ uploadPage.manualEntries[index].kind = "entry"
    /\ uploadPage' = [uploadPage EXCEPT
            !.manualEntries = FilterOut(@, index)]
    /\ PageUnchanged

handleCancelEdit ==
    /\ Mounted
    /\ uploadPage' = [uploadPage EXCEPT
            !.editingIndex = <<>>, !.error = <<>>]
    /\ PageUnchanged

InitUploadPage ==
    /\ threshold = 43500
    /\ consumer = Unscored([m \in Models |-> 0])
    /\ disk = NoFile
    /\ consumersReq = Idle
    /\ predictReq = Idle
    /\ generateReq = Idle
    /\ evaluationReq = Idle
    /\ modelsPage = Idle
    /\ batch = Idle
    /\ uploadPage = [pc |-> "mounted", activeTab |-> "upload", file |-> <<>>,
                     loading |-> FALSE, error |-> <<>>, dragActive |-> FALSE,
                     manualEntries |-> <<>>, editingIndex |-> <<>>,
                     inflight |-> <<>>]

NextUploadPage ==
    \/ \E type \in {"dragenter", "dragover", "dragleave"} : handleDrag(type)
    \/ \E files \in FileLists : handleDrop(files)
    \/ \E files \in FileLists : handleFileChange(files)
    \/ RemoveFile
    \/ \E tab \in {"upload", "manual"} : SelectTab(tab)
    \/ handleUpload
    \/ handleVerifyManualEntries
    \/ \E i \in 1..MaxRequests, outcome \in PredictOutcomes : PredictSettled(i, outcome)
    \/ handleReset
    \/ \E id \in {"", "a"}, allZero \in BOOLEAN : handleAddManualEntry(id, allZero)
    \/ \E index \in 1..MaxEntries : handleEditEntry(index)
    \/ \E index \in 1..MaxEntries : handleDeleteEntry(index)
    \/ handleCancelEdit

SpecUploadPage == InitUploadPage /\ [][NextUploadPage]_vars

(***************************************************************************)
(* Properties of the scoring policy (SpecScore)                            *)
(***************************************************************************)

\* C1: the ensemble score is 0.25*autoencoder + 0.25*lstm + 0.20*xgboost +
\* 0.15*randomforest + 0.15*isolationforest, and the five published weights
\* are non-negative and sum to exactly 1 (100 percent).
C1_WeightedSumOfFive ==
    /\ DOMAIN ENSEMBLE_WEIGHTS = Models
    /\ \A m \in Models : ENSEMBLE_WEIGHTS[m] >= 0
    /\ ENSEMBLE_WEIGHTS.autoencoder + ENSEMBLE_WEIGHTS.lstm + ENSEMBLE_WEIGHTS.xgboost
         + ENSEMBLE_WEIGHTS.randomforest + ENSEMBLE_WEIGHTS.isolationforest = 100
    /\ consumer.scored =>
         consumer.ensemble_score =
             25 * consumer.scores.autoencoder + 25 * consumer.scores.lstm
             + 20 * consumer.scores.xgboost + 15 * consumer.scores.randomforest
             + 15 * consumer.scores.isolationforest

\* a scored consumer whose five model scores are pairwise different
C1_Witness ==
    /\ consumer.scored
    /\ Cardinality({consumer.scores[m] : m \in Models}) = 5
    /\ consumer.ensemble_score > 0

ScoresInRange(s) == \A m \in Models : 0 <= s[m] /\ s[m] <= One

\* C2: when every model score lies in [0,1] the ensemble score lies in [0,1];
\* it is 0 only when all five scores are 0 and 1 only when all five are 1.
C2_EnsembleInUnitInterval ==
    (consumer.scored /\ ScoresInRange(consumer.scores)) =>
        /\ 0 <= consumer.ensemble_score
        /\ consumer.ensemble_score <= EnsOne
        /\ consumer.ensemble_score = 0 => \A m \in Models : consumer.scores[m] = 0
        /\ consumer.ensemble_score = EnsOne => \A m \in Models : consumer.scores[m] = One

\* a consumer with all five scores 1 was scored 1
C2_Witness ==
    /\ consumer.scored
    /\ ScoresInRange(consumer.scores)
    /\ consumer.ensemble_score = EnsOne

C4_RiskBucketsTotal ==
    (consumer.scored /\ 0 <= consumer.ensemble_score /\ consumer.ensemble_score <= EnsOne) =>
        /\ consumer.risk_category \in {"Minimal", "Low", "Medium", "High"}
        /\ consumer.risk_category = "High" <=> 10 * consumer.ensemble_score > 7 * EnsOne
        /\ consumer.risk_category = "Medium" <=>
              (10 * consumer.ensemble_score > 4 * EnsOne
               /\ 10 * consumer.ensemble_score <= 7 * EnsOne)
        /\ consumer.risk_category = "Low" <=>
              (10 * consumer.ensemble_score > 2 * EnsOne
               /\ 10 * consumer.ensemble_score <= 4 * EnsOne)
        /\ consumer.risk_category = "Minimal" <=> 10 * consumer.ensemble_score <= 2 * EnsOne

\* a consumer scored exactly 0.7 is Medium
C4_Witness ==
    /\ consumer.scored
    /\ 10 * consumer.ensemble_score = 7 * EnsOne
    /\ consumer.risk_category = "Medium"

(***************************************************************************)
(* Properties of GET /api/consumers (SpecConsumers)                        *)
(***************************************************************************)

\* the lines after the first that hold a character other than white space
NonBlankDataLines(data) ==
    Cardinality({j \in 1..Len(data) :
        /\ data[j] = NL
        /\ \E k \in (j + 1)..Len(data) :
              /\ data[k] \notin Whitespace
              /\ \A m \in (j + 1)..(k - 1) : data[m] # NL})

\* the trimmed cells of the first line
HeaderKeys(data) ==
    LET nls == {i \in 1..Len(data) : data[i] = NL}
        first == IF nls = {} THEN data ELSE SubSeq(data, 1, Min(nls) - 1)
        cells == Split(first, ",")
    IN  {Trim(cells[i]) : i \in 1..Len(cells)}

BackendFailed(b) == b.kind = "unreachable" \/ (b.kind = "status" /\ b.status # 200)
Backend404(b) == b.kind = "status" /\ b.status = 404

\* C5: when the backend answers 404 or another non-OK status, or cannot be
\* reached, the handler serves the rows of consumer_risk_scores.csv, one
\* object per non-blank data line keyed by the header row; an error response
\* is produced only when the file cannot be read, with status 404 after a
\* backend 404 and 500 in every other fallback path.
C5_ConsumersFallBackToDisk ==
    consumersReq.pc = "done" =>
        LET b == consumersReq.backend
            r == consumersReq.response
        IN  /\ (BackendFailed(b) /\ disk.readable) =>
                  /\ r.status = 200
                  /\ r.body.error = ""
                  /\ ~r.body.live
                  /\ Len(r.body.consumers) = NonBlankDataLines(disk.data)
                  /\ \A i \in 1..Len(r.body.consumers) :
                        DOMAIN r.body.consumers[i] = HeaderKeys(disk.data)
            /\ (BackendFailed(b) /\ ~disk.readable) =>
                  /\ r.body.error # ""
                  /\ r.status = IF Backend404(b) THEN 404 ELSE 500
            /\ r.status # 200 =>
                  /\ ~disk.readable
                  /\ r.body.error # ""
                  /\ r.status = IF Backend404(b) THEN 404 ELSE 500

\* a backend 404 answered with the two rows of a readable file
C5_Witness ==
    /\ consumersReq.pc = "done"
    /\ Backend404(consumersReq.backend)
    /\ disk.readable
    /\ consumersReq.response.status = 200
    /\ Len(consumersReq.response.body.consumers) = 2

(***************************************************************************)
(* Properties of POST /api/predict (SpecPredict)                           *)
(***************************************************************************)

\* the last four characters of the name are '.csv'
NamedCsv(form) ==
    /\ form.kind = "file"
    /\ Len(form.name) >= 4
    /\ form.name[Len(form.name) - 3] = "."
    /\ form.name[Len(form.name) - 2] = "c"
    /\ form.name[Len(form.name) - 1] = "s"
    /\ form.name[Len(form.name)] = "v"

\* C6: a request with no 'file' field gets 400 'No file uploaded', a file
\* whose name does not end in '.csv' gets 400 'File must be a CSV', in both
\* cases nothing is sent to the backend; the backend is contacted only after
\* both checks pass.
C6_PredictValidatesBeforeForwarding ==
    /\ predictReq.pc = "done" =>
          /\ predictReq.form.kind = "empty" =>
                /\ predictReq.response.status = 400
                /\ predictReq.response.body.error = "No file uploaded"
                /\ predictReq.sent = 0
                /\ predictReq.backend = NoBackend
          /\ (predictReq.form.kind = "file" /\ ~NamedCsv(predictReq.form)) =>
                /\ predictReq.response.status = 400
                /\ predictReq.response.body.error = "File must be a CSV"
                /\ predictReq.sent = 0
                /\ predictReq.backend = NoBackend
    /\ (predictReq.pc # "idle" /\ predictReq.sent > 0) => NamedCsv(predictReq.form)

\* a file named d.csv.x was refused without a backend request
C6_Witness ==
    /\ predictReq.pc = "done"
    /\ predictReq.form.kind = "file"
    /\ Len(predictReq.form.name) = 7
    /\ predictReq.response.status = 400
    /\ predictReq.sent = 0

\* the backend answered OK with a list of prediction objects
UsablePredictions(b) ==
    /\ b.kind = "ok"
    /\ b.body = "list"
    /\ \A i \in 1..Len(b.predictions) : b.predictions[i].kind = "object"

\* C7: once validation has passed, every failure of the backend exchange
\* (unreachable, non-OK status, a body without a usable predictions list)
\* gives 503 'Python backend is not available', and success:true is returned
\* only if the backend answered OK with a predictions list.
C7_BackendFailureIs503 ==
    (predictReq.pc = "done") =>
        /\ (predictReq.sent > 0 /\ ~UsablePredictions(predictReq.backend)) =>
              /\ predictReq.response.status = 503
              /\ predictReq.response.body.error = NotAvailable
              /\ ~predictReq.response.body.success
        /\ predictReq.response.body.success =>
              /\ predictReq.sent > 0
              /\ predictReq.backend.kind = "ok"
              /\ predictReq.backend.body = "list"

\* a non-OK backend answer that carries a predictions-free body gave 503
C7_Witness ==
    /\ predictReq.pc = "done"
    /\ predictReq.sent > 0
    /\ predictReq.backend.kind = "notok"
    /\ predictReq.response.status = 503

RiskSum(summary) ==
    summary.high_risk + summary.medium_risk + summary.low_risk + summary.minimal_risk

\* C8: in a successful response summary.total is the number of predictions,
\* theft_detected the number with ensemble_prediction = 1 (<= total), and
\* high + medium + low + minimal = total when every risk_category is one of
\* the four (<= total always).
C8_SummaryCounts ==
    (predictReq.pc = "done" /\ predictReq.response.body.success) =>
        LET ps == predictReq.response.body.predictions
            summary == predictReq.response.body.summary
        IN  /\ ps = predictReq.backend.predictions
            /\ summary.total = Len(ps)
            /\ summary.theft_detected =
                  Cardinality({i \in 1..Len(ps) : ps[i].ensemble_prediction = 1})
            /\ summary.theft_detected <= summary.total
            /\ RiskSum(summary) <= summary.total
            /\ (\A i \in 1..Len(ps) :
                    ps[i].risk_category \in {"High", "Medium", "Low", "Minimal"})
                  => RiskSum(summary) = summary.total

\* two predictions, one of them theft, one outside the four categories
C8_Witness ==
    /\ predictReq.pc = "done"
    /\ predictReq.response.body.success
    /\ predictReq.response.body.summary.total = 2
    /\ predictReq.response.body.summary.theft_detected = 1
    /\ RiskSum(predictReq.response.body.summary) = 1

(***************************************************************************)
(* Properties of POST /api/generate-data (SpecGenerate)                    *)
(***************************************************************************)

\* the value converts to a number between lo and hi
Between(x, lo, hi) == ~IsNaN(x) /\ lo <= x.v /\ x.v <= hi

\* the messages of the ranges the body violates
ViolatedRanges(body) ==
    (IF Between(body.num_consumers, 10, 1000) THEN {}
     ELSE {"Number of consumers must be between 10 and 1000"})
    \cup (IF Between(body.days, 1, 365) THEN {}
          ELSE {"Number of days must be between 1 and 365"})
    \cup (IF Between(body.theft_rate, 0, 500) THEN {}
          ELSE {"Theft rate must be between 0 and 0.5"})

\* C9: every request forwarded to the backend has num_consumers in 10..1000,
\* days in 1..365 and theft_rate in 0..0.5; a body violating one of the
\* ranges is answered with 400 and the matching message, nothing forwarded.
C9_ForwardsOnlyValidRanges ==
    /\ (generateReq.pc # "idle" /\ generateReq.forwarded.sent) =>
          /\ Between(generateReq.forwarded.num_consumers, 10, 1000)
          /\ Between(generateReq.forwarded.days, 1, 365)
          /\ Between(generateReq.forwarded.theft_rate, 0, 500)
    /\ (generateReq.pc = "done" /\ generateReq.body.kind = "object"
        /\ ViolatedRanges(generateReq.body) # {}) =>
          /\ generateReq.response.status = 400
          /\ generateReq.response.error \in ViolatedRanges(generateReq.body)
          /\ ~generateReq.forwarded.sent

(***************************************************************************)
(* Properties of GET /api/evaluation (SpecEvaluation)                      *)
(***************************************************************************)

\* every number of the summary is 0
AllZero(es) ==
    /\ es.ensemble_accuracy = 0
    /\ es.ensemble_auc = 0
    /\ es.ensemble_precision.num = 0
    /\ es.ensemble_recall.num = 0
    /\ es.ensemble_f1.num = 0
    /\ \A k \in DOMAIN es.confusion_matrix : es.confusion_matrix[k] = 0
    /\ DOMAIN es.risk_distribution = {"High", "Medium", "Low", "Minimal"}
    /\ \A k \in DOMAIN es.risk_distribution : es.risk_distribution[k] = 0
    /\ es.total_consumers = 0
    /\ es.theft_consumers_detected = 0
    /\ es.actual_theft_consumers = 0

\* C10: the handler never answers with an error status; after a backend 404,
\* another non-OK status or an unreachable backend the response is the
\* all-zero evaluation_summary with is_live_data = false; is_live_data = true
\* appears only in a response derived from an OK backend response.
C10_EvaluationNeverFails ==
    evaluationReq.pc = "done" =>
        LET b == evaluationReq.backend
            r == evaluationReq.response
        IN  /\ r.status = 200
            /\ (b.kind \in {"unreachable", "status"}) =>
                  /\ AllZero(r.body.evaluation_summary)
                  /\ ~r.body.is_live_data
            /\ r.body.is_live_data => b.kind = "ok"

\* a backend 404 answered 200 with the placeholder
C10_Witness ==
    /\ evaluationReq.pc = "done"
    /\ evaluationReq.backend.kind = "status"
    /\ evaluationReq.backend.status = 404
    /\ evaluationReq.response.status = 200
    /\ ~evaluationReq.response.body.is_live_data

\* the fraction f is the ratio n / d, for d > 0
IsRatio(f, n, d) == f.den > 0 /\ f.num * d = n * f.den

\* the backend answered OK with a summary
LiveEvaluation ==
    /\ evaluationReq.pc = "done"
    /\ evaluationReq.backend.kind = "ok"
    /\ evaluationReq.backend.body = "summary"

\* C12: on the live path ensemble_precision and ensemble_f1 both equal
\* theft_detected / total when total > 0 and 0 otherwise; ensemble_recall is
\* 1 exactly when theft_detected > 0 and 0 otherwise; true_positive =
\* theft_detected, true_negative = normal_detected, false_positive =
\* false_negative = 0, and actual_theft_consumers = theft_consumers_detected.
C12_LiveMetricsAreDetectionStatistics ==
    LiveEvaluation =>
        LET s == evaluationReq.backend.summary
            es == evaluationReq.response.body.evaluation_summary
        IN  /\ evaluationReq.response.body.is_live_data
            /\ s.total > 0 =>
                  /\ IsRatio(es.ensemble_precision, s.theft_detected, s.total)
                  /\ IsRatio(es.ensemble_f1, s.theft_detected, s.total)
            /\ ~(s.total > 0) =>
                  /\ es.ensemble_precision.num = 0
                  /\ es.ensemble_f1.num = 0
            /\ s.theft_detected > 0 => IsRatio(es.ensemble_recall, 1, 1)
            /\ ~(s.theft_detected > 0) => es.ensemble_recall.num = 0
            /\ es.confusion_matrix.true_positive = s.theft_detected
            /\ es.confusion_matrix.true_negative = s.normal_detected
            /\ es.confusion_matrix.false_positive = 0
            /\ es.confusion_matrix.false_negative = 0
            /\ es.actual_theft_consumers = es.theft_consumers_detected
            /\ es.theft_consumers_detected = s.theft_detected

\* one theft among three consumers: precision = F1 = 1/3 and recall = 1
C12_Witness ==
    /\ LiveEvaluation
    /\ evaluationReq.backend.summary.total = 3
    /\ evaluationReq.backend.summary.theft_detected = 1
    /\ evaluationReq.backend.summary.normal_detected = 2
    /\ evaluationReq.response.body.evaluation_summary.ensemble_precision = Frac(1, 3)
    /\ evaluationReq.response.body.evaluation_summary.ensemble_recall = OneWhole

(***************************************************************************)
(* Properties of batch classification (SpecBatch)                          *)
(***************************************************************************)

\* C13: classification is monotone in the threshold: for the same consumer
\* scores and any two thresholds t1 <= t2, the consumers flagged at t2 are a
\* subset of those flagged at t1.
C13_MonotoneInThreshold ==
    \A r1, r2 \in batch.runs :
        r1.threshold <= r2.threshold => r2.flagged \subseteq r1.flagged

\* raising the threshold from 0.435 to 0.45 dropped a consumer and kept one
C13_Witness ==
    \E r1, r2 \in batch.runs :
        /\ r1.threshold = 43500
        /\ r2.threshold = 45000
        /\ r2.flagged # {}
        /\ r2.flagged # r1.flagged
        /\ r2.flagged \subseteq r1.flagged

\* the consumers of the batch whose score is 0.4349 or 0.4350
Borderline == {i \in 1..Len(batch.scores) : batch.scores[i] \in {43490, 43500}}

\* C14: at threshold 0.435 the borderline consumers with scores 0.4349 and
\* 0.4350 are both flagged as theft, and neither is flagged at threshold 0.45.
C14_BorderlineFlaggedAt435 ==
    \A r \in batch.runs :
        /\ r.threshold = 43500 => Borderline \subseteq r.flagged
        /\ r.threshold = 45000 => Borderline \cap r.flagged = {}

(***************************************************************************)
(* Properties of the upload page (SpecUploadPage)                          *)
(***************************************************************************)

\* the selected file is null or a file whose name ends in '.csv'
SelectedFileIsCsv(page) == page.file = <<>> \/ EndsWith(page.file[1], DotCsv)

\* a request in flight carries a CSV file, and rows when it was built from
\* the manual list
HasInput(request) ==
    /\ request.file # <<>>
    /\ EndsWith(request.file[1], DotCsv)
    /\ request.via = "manual" => request.rows > 0

\* the step changes nothing of the page but the error, which becomes message
OnlySetsError(message) == uploadPage' = [uploadPage EXCEPT !.error = <<message>>]

C15_Step ==
    /\ (handleUpload /\ uploadPage.file = <<>>) =>
            OnlySetsError("Please select a file first")
    /\ (handleVerifyManualEntries /\ Len(uploadPage.manualEntries) = 0) =>
            OnlySetsError("Please add at least one consumer entry")
    /\ \A files \in FileLists :
            ((handleDrop(files) \/ handleFileChange(files))
                /\ files # <<>> /\ ~EndsWith(files[1], DotCsv)) =>
            /\ uploadPage'.file = uploadPage.file
            /\ uploadPage'.error = <<"Please upload a CSV file">>
    /\ SelectedFileIsCsv(uploadPage)
    /\ SelectedFileIsCsv(uploadPage')
    /\ \A i \in 1..Len(uploadPage'.inflight) : HasInput(uploadPage'.inflight[i])

\* C15: no prediction request is issued without input: handleUpload with no
\* selected file only sets the error 'Please select a file first',
\* handleVerifyManualEntries with zero manual entries only sets 'Please add at
\* least one consumer entry', and the selected file is always null or a file
\* whose name ends in '.csv': dropping or choosing a non-CSV file sets an error
\* and leaves the previous selection unchanged.
C15_NoRequestWithoutInput == [][C15_Step]_vars

\* a request for the selected CSV file is in flight, and
\* handleVerifyManualEntries has then refused to run on the empty list
C15_Witness ==
    /\ uploadPage.pc = "mounted"
    /\ uploadPage.file = <<(<<"d">> \o DotCsv)>>
    /\ uploadPage.manualEntries = <<>>
    /\ uploadPage.error = <<"Please add at least one consumer entry">>
    /\ uploadPage.inflight = <<[via |-> "upload", file |-> uploadPage.file, rows |-> 0]>>

(***************************************************************************)
(* Properties of the models page (SpecModelsPage)                          *)
(***************************************************************************)

Hundred == Frac(100, 1)

\* every label is absent or equal to the prediction
NoGroundTruth(items) ==
    \A i \in 1..Len(items) :
        \/ items[i].true_theft_label = Undefined
        \/ items[i].true_theft_label = items[i].ensemble_prediction

\* C11: for every non-empty consumer list without ground-truth labels the
\* metrics show perfect scores: false positives = false negatives = 0 and
\* accuracy, precision, recall and F1 are all 100%.
C11_PerfectScoresWithoutGroundTruth ==
    (/\ modelsPage.pc = "loaded"
     /\ modelsPage.data.kind = "list"
     /\ Len(modelsPage.data.items) > 0
     /\ NoGroundTruth(modelsPage.data.items)) =>
        /\ modelsPage.confusionMatrix.present
        /\ ~modelsPage.confusionMatrix.hasGroundTruth
        /\ modelsPage.confusionMatrix.falsePositive = 0
        /\ modelsPage.confusionMatrix.falseNegative = 0
        /\ modelsPage.confusionMatrix.accuracy = Hundred
        /\ modelsPage.confusionMatrix.precision = Hundred
        /\ modelsPage.confusionMatrix.recall = Hundred
        /\ modelsPage.confusionMatrix.f1Score = Hundred

====
